---- MODULE Spec2Model ----
(***************************************************************************)
(* A model of rlba.environments.contextual_logistic_bandit:                *)
(* class ContextualLogisticBandit, its constructor, step and accessors,    *)
(* together with the process-wide numpy random stream every sampling call  *)
(* of the class draws from.                                                *)
(*                                                                         *)
(* Floats are modelled in fixed point (FP units per 1.0).  A standard      *)
(* normal variate is one of RandnVals; a uniform integer or a Bernoulli    *)
(* variate is any value of its support.  The stream itself is modelled by  *)
(* its position, draws: the number of variates consumed so far.            *)
(***************************************************************************)
EXTENDS Integers, Sequences, FiniteSets, TLC

\* ------------------------------------------------------------------ bounds
MaxCells == 4           \* num_contexts * num_actions is at most this
MaxDraws == 8           \* no sampling call moves the stream past this position
DimVals == {-1, 0, 1}   \* values of dim
SigmaVals == {-1, 0, 1} \* values of sigma_p (a float in the code, whole numbers here)
Seeds == {0, 1}         \* values of seed
RandnVals == {-1, 1}    \* values of one standard normal variate (never exactly 0)
Envs == {"a", "b"}      \* the environment objects of the process

\* --------------------------------------------------------- float arithmetic
FP == 1000              \* fixed-point units per 1.0
ExpTerms == 12          \* terms of the series that stands for np.exp
None == -1              \* Python's None, as the value of _prev_context

Range(n) == 0 .. (n - 1)

Abs(x) == IF x < 0 THEN -x ELSE x

\* x / y on floats, rounded towards zero in fixed point.
FDiv(x, y) ==
  IF (x < 0) = (y < 0) THEN (Abs(x) * FP) \div Abs(y)
  ELSE -((Abs(x) * FP) \div Abs(y))

\* x * y on floats.
FMul(x, y) ==
  IF (x < 0) = (y < 0) THEN (Abs(x) * Abs(y)) \div FP
  ELSE -((Abs(x) * Abs(y)) \div FP)

RECURSIVE SumTo(_, _)
\* sum of f[0] .. f[n-1]
SumTo(f, n) == IF n <= 0 THEN 0 ELSE f[n - 1] + SumTo(f, n - 1)

RECURSIVE NewtonSqrt(_, _)
\* Newton's iteration for the square root of x from the estimate r >= sqrt(x)
NewtonSqrt(x, r) ==
  CHOOSE root \in {IF nxt >= r THEN r ELSE NewtonSqrt(x, nxt) :
                     nxt \in {(r + x \div r) \div 2}} : TRUE

\* floor of the square root of a natural number
ISqrt(x) == IF x = 0 THEN 0 ELSE NewtonSqrt(x, x)

\* np.linalg.norm(v, axis=-1) of a vector v of length n (fixed point in, fixed point out)
Norm(v, n) == ISqrt(SumTo([i \in Range(n) |-> v[i] * v[i]], n))

RECURSIVE ExpSeries(_, _, _)
\* sum of the series of e^x from term number k (whose value is term) on, x >= 0
ExpSeries(x, k, term) ==
  IF k > ExpTerms \/ term = 0 THEN 0
  ELSE term + ExpSeries(x, k + 1, (term * x) \div ((k + 1) * FP))

\* np.exp
Exp(x) == IF x >= 0 THEN ExpSeries(x, 0, FP)
          ELSE (FP * FP) \div ExpSeries(-x, 0, FP)

\* np.tensordot(feature[s][a], theta, axes=([-1],[0])) for vectors of length n
Dot(u, v, n) == SumTo([i \in Range(n) |-> FMul(u[i], v[i])], n)

SetMax(S) == CHOOSE m \in S : \A x \in S : x <= m

\* numpy's integer indexing of an axis of length n: negative indices count from the end
InBounds(n, i) == i >= -n /\ i < n
Wrap(n, i) == IF i < 0 THEN n + i ELSE i

\* ------------------------------------------------------------ configuration
\* The arguments of ContextualLogisticBandit(num_actions, num_contexts, dim, seed, sigma_p)
Configs ==
  {c \in [num_actions : -1 .. MaxCells, num_contexts : -1 .. MaxCells,
          dim : DimVals, seed : Seeds, sigma_p : SigmaVals] :
     c.num_contexts * c.num_actions <= MaxCells}

\* what one call of np.random.randn(n) can return
Randn(n) == [Range(n) -> RandnVals]

\* what np.random.randn(S, A, n) can return
Randn3(S, A, n) == [Range(S) -> [Range(A) -> Randn(n)]]

\* what np.random.randint(low=0, high=n) can return
Randint(n) == Range(n)

\* what np.random.binomial(1, p) can return
Binomial(p) == IF p <= 0 THEN {0} ELSE IF p >= FP THEN {1} ELSE {0, 1}

\* ------------------------------------------------------------- reward model
\* self.theta = sigma_p * np.random.randn(dim)
Theta(sigma_p, z, dim) == [i \in Range(dim) |-> sigma_p * (z[i] * FP)]

\* self.feature = feature / np.linalg.norm(feature, axis=-1, keepdims=True)
Feature(raw, S, A, dim) ==
  [s \in Range(S) |-> [a \in Range(A) |->
     LET v == [i \in Range(dim) |-> raw[s][a][i] * FP]
     IN [i \in Range(dim) |-> FDiv(v[i], Norm(v, dim))]]]

\* exp_logits / (1 + exp_logits)
Rewards(feature, theta, S, A, dim) ==
  [s \in Range(S) |-> [a \in Range(A) |->
     LET exp_logits == Exp(Dot(feature[s][a], theta, dim))
     IN FDiv(exp_logits, FP + exp_logits)]]

\* np.max(self.rewards, axis=1, keepdims=True): shape (S, 1)
Values(rewards, S, A) ==
  [s \in Range(S) |-> [k \in {0} |-> SetMax({rewards[s][a] : a \in Range(A)})]]

\* Regrets with the operands of the subtraction exchanged.
RegretsReversed(values, rewards, S, A) ==
  [s \in Range(S) |-> [a \in Range(A) |-> rewards[s][a] - values[s][0]]]

\* self.values - self.rewards, the (S, 1) column broadcast over the actions
Regrets(values, rewards, S, A) ==
  [s \in Range(S) |-> [a \in Range(A) |-> values[s][0] - rewards[s][a]]]

\* DiscreteArraySpec(num_actions, name="action spec")
ActionSpec(num_actions) == [num_values |-> num_actions, name |-> "action spec"]

\* BoundedArraySpec(shape=(2,), dtype=int, minimum=0, maximum=num_contexts, ...)
ObservationSpec(num_contexts) ==
  [shape |-> <<2>>, dtype |-> "int", minimum |-> 0, maximum |-> num_contexts,
   name |-> "observation spec"]

\* ------------------------------------------------------------------- state
VARIABLES
  cfg,     \* the configuration the caller constructs its environments with
  env,     \* env[e]: the fields of environment object e
  draws,   \* position of the process-wide np.random stream
  call,    \* the most recent call: [op, self, arg]
  ret      \* what it returned or raised: [kind, val]

vars == <<cfg, env, draws, call, ret>>

\* An object that has not been constructed.
NoEnv ==
  [status |-> "absent", num_actions |-> 0, num_contexts |-> 0, dim |-> 0,
   sigma_p |-> 0, sigma_p_squared |-> 0, theta |-> <<>>, feature |-> <<>>,
   rewards |-> <<>>, values |-> <<>>, regrets |-> <<>>,
   _action_spec |-> ActionSpec(0), _observation_spec |-> ObservationSpec(0),
   context |-> 0, context_features |-> <<>>, _prev_context |-> None]

Live(e) == env[e].status = "live"

Init ==
  /\ cfg \in Configs
  /\ env = [e \in Envs |-> NoEnv]
  /\ draws = 0
  /\ call = [op |-> "start", self |-> "-", arg |-> 0]
  /\ ret = [kind |-> "ok", val |-> 0]

Raise(kind) == [kind |-> kind, val |-> 0]
Return(val) == [kind |-> "ok", val |-> val]

\* ------------------------------------------------------------- constructor
\* The statement of __init__ that raises for configuration c, or "none".
CtorRaises(c) ==
  IF c.dim < 0 THEN "randn(dim)"
  ELSE IF c.num_contexts < 0 \/ c.num_actions < 0 THEN "randn(num_contexts, num_actions, dim)"
  ELSE IF c.num_actions = 0 THEN "np.max(axis=1)"
  ELSE IF c.num_contexts = 0 THEN "randint(0, num_contexts)"
  ELSE "none"

\* The variates __init__ consumes for configuration c, up to where it raises.
CtorDraws(c) ==
  IF c.dim < 0 THEN 0
  ELSE IF c.num_contexts < 0 \/ c.num_actions < 0 THEN c.dim
  ELSE IF c.num_actions = 0 \/ c.num_contexts = 0 THEN c.dim
  ELSE c.dim + c.num_contexts * c.num_actions * c.dim + 1

\* The object at the end of __init__, from the values its statements computed.
NewEnv(c, theta, feature, rewards, values, regrets, ctx) ==
  [status |-> "live", num_actions |-> c.num_actions,
   num_contexts |-> c.num_contexts, dim |-> c.dim,
   sigma_p |-> c.sigma_p, sigma_p_squared |-> c.sigma_p * c.sigma_p,
   theta |-> theta, feature |-> feature, rewards |-> rewards,
   values |-> values, regrets |-> regrets,
   _action_spec |-> ActionSpec(c.num_actions),
   _observation_spec |-> ObservationSpec(c.num_contexts),
   context |-> ctx, context_features |-> feature[ctx], _prev_context |-> None]

\* env[e] = ContextualLogisticBandit(**cfg).  The variates are z (theta), raw
\* (the features) and ctx (the first context); each following statement of
\* __init__ binds the value it computes.
Construct(e) ==
  /\ env[e].status = "absent"
  /\ draws + CtorDraws(cfg) <= MaxDraws
  /\ draws' = draws + CtorDraws(cfg)
  /\ call' = [op |-> "__init__", self |-> e, arg |-> 0]
  /\ IF CtorRaises(cfg) # "none"
       THEN /\ env' = [env EXCEPT ![e].status = "failed"]
            /\ ret' = Raise("ValueError")
       ELSE \E z \in Randn(cfg.dim),
               raw \in Randn3(cfg.num_contexts, cfg.num_actions, cfg.dim),
               ctx \in Randint(cfg.num_contexts) :
            \E theta \in {Theta(cfg.sigma_p, z, cfg.dim)},
               feature \in {Feature(raw, cfg.num_contexts, cfg.num_actions, cfg.dim)} :
            \E rewards \in {Rewards(feature, theta, cfg.num_contexts,
                                    cfg.num_actions, cfg.dim)} :
            \E values \in {Values(rewards, cfg.num_contexts, cfg.num_actions)} :
            \E regrets \in {Regrets(values, rewards, cfg.num_contexts, cfg.num_actions)} :
              /\ env' = [env EXCEPT ![e] =
                   NewEnv(cfg, theta, feature, rewards, values, regrets, ctx)]
              /\ ret' = Return(0)
  /\ UNCHANGED cfg

\* -------------------------------------------------------------------- step
\* the actions the caller passes to step: the valid ones, one below, one above
StepArgs(o) == -1 .. o.num_actions

\* self._get_context()
GetContext(o) == o.context

\* NextContexts without the resampling: the context stays what it is.
NextContextsSticky(o) == {o.context}

\* the values np.random.randint(low=0, high=self.num_contexts) can give object o
NextContexts(o) == Randint(o.num_contexts)

\* self._reset_context(), the variate being ctx
ResetContext(o, ctx) ==
  [o EXCEPT !.context = ctx, !.context_features = o.feature[ctx]]

\* ValidAction without the lower bound.
ValidActionNoLowerBound(o, action) == action < o.num_actions

\* the condition of step's assert
ValidAction(o, action) == action >= 0 /\ action < o.num_actions

\* self.rewards[self.context, action]
MeanReward(o, action) == o.rewards[o.context][Wrap(o.num_actions, action)]

\* StepState with its two statements in the other order.
StepStateResetFirst(o, ctx) ==
  LET r == ResetContext(o, ctx) IN [r EXCEPT !._prev_context = GetContext(r)]

\* self._prev_context = self._get_context(); self._reset_context()
StepState(o, ctx) ==
  ResetContext([o EXCEPT !._prev_context = GetContext(o)], ctx)

\* Observation with its two components exchanged.
ObservationSwapped(reward, o) == <<GetContext(o), reward>>

\* context_index = self._get_context(); np.array([reward, context_index]).astype(int)
Observation(reward, o) == <<reward, GetContext(o)>>

\* env[e].step(action)
Step(e, action) ==
  /\ Live(e)
  /\ IF ~ValidAction(env[e], action)
       THEN /\ ret' = Raise("AssertionError")
            /\ UNCHANGED <<env, draws>>
       ELSE /\ draws + 2 <= MaxDraws
            /\ \E reward \in Binomial(MeanReward(env[e], action)),
                  ctx \in NextContexts(env[e]) :
                 LET o == StepState(env[e], ctx)
                 IN /\ env' = [env EXCEPT ![e] = o]
                    /\ ret' = Return(Observation(reward, o))
            /\ draws' = draws + 2
  /\ call' = [op |-> "step", self |-> e, arg |-> action]
  /\ UNCHANGED cfg

\* --------------------------------------------------------------- accessors
\* the indices the caller passes to an accessor of object o
IndexArgs(o) ==
  -1 .. (IF o.num_actions > o.num_contexts THEN o.num_actions ELSE o.num_contexts)

\* self.rewards[self._prev_context, action].  With _prev_context None the
\* index None is numpy's newaxis: the integer then indexes the context axis
\* and the result is that context's row, with shape (1, num_actions).
ExpectedRewardValue(o, action) ==
  IF o._prev_context = None
    THEN IF InBounds(o.num_contexts, action)
           THEN Return(<<o.rewards[Wrap(o.num_contexts, action)]>>)
           ELSE Raise("IndexError")
    ELSE IF InBounds(o.num_actions, action)
           THEN Return(o.rewards[o._prev_context][Wrap(o.num_actions, action)])
           ELSE Raise("IndexError")

\* OptimalExpectedRewardValue without the maximum: the first action's entry.
OptimalFirstAction(o) ==
  IF o._prev_context = None THEN Return(o.rewards[0][0])
  ELSE Return(o.rewards[o._prev_context][0])

\* np.max(self.rewards[self._prev_context]).  With _prev_context None the
\* operand is the whole surface with a leading axis of length 1.
OptimalExpectedRewardValue(o) ==
  IF o._prev_context = None
    THEN Return(SetMax({o.rewards[s][a] : s \in Range(o.num_contexts), a \in Range(o.num_actions)}))
    ELSE Return(SetMax({o.rewards[o._prev_context][a] : a \in Range(o.num_actions)}))

\* self.feature[context_index, :, :]
GetFeaturesValue(o, context_index) ==
  IF InBounds(o.num_contexts, context_index)
    THEN Return(o.feature[Wrap(o.num_contexts, context_index)])
    ELSE Raise("IndexError")

\* A call that reads object e and leaves every field alone.
Reads(e, op, arg, result) ==
  /\ Live(e)
  /\ call' = [op |-> op, self |-> e, arg |-> arg]
  /\ ret' = result
  /\ UNCHANGED <<cfg, env, draws>>

ExpectedReward(e, action) ==
  Reads(e, "expected_reward", action, ExpectedRewardValue(env[e], action))

OptimalExpectedReward(e) ==
  Reads(e, "optimal_expected_reward", 0, OptimalExpectedRewardValue(env[e]))

OutputMeans(e) == Reads(e, "output_means", 0, Return(env[e].rewards))

OutputRegrets(e) == Reads(e, "output_regrets", 0, Return(env[e].regrets))

GetFeatures(e, context_index) ==
  Reads(e, "get_features", context_index, GetFeaturesValue(env[e], context_index))

ObservationSpecProperty(e) ==
  Reads(e, "observation_spec", 0, Return(env[e]._observation_spec))

ActionSpecProperty(e) == Reads(e, "action_spec", 0, Return(env[e]._action_spec))

\* CloseState that forgets the previous context.
CloseForgets(o) == [o EXCEPT !._prev_context = None]

\* the fields of object o after close(): its body is pass
CloseState(o) == o

\* env[e].close()
Close(e) ==
  /\ Live(e)
  /\ env' = [env EXCEPT ![e] = CloseState(env[e])]
  /\ call' = [op |-> "close", self |-> e, arg |-> 0]
  /\ ret' = Return(0)
  /\ UNCHANGED <<cfg, draws>>

\* env[e].__enter__(): returns self
Enter(e) == Reads(e, "__enter__", 0, Return(e))

\* env[e].__exit__(exc_type, exc_value, traceback): calls self.close()
Exit(e) ==
  /\ Live(e)
  /\ env' = [env EXCEPT ![e] = CloseState(env[e])]
  /\ call' = [op |-> "__exit__", self |-> e, arg |-> 0]
  /\ ret' = Return(0)
  /\ UNCHANGED <<cfg, draws>>

\* ---------------------------------------------------------- specifications
\* One environment, every operation of the class.
Next ==
  \/ Construct("a")
  \/ \E action \in StepArgs(env["a"]) : Step("a", action)
  \/ \E action \in IndexArgs(env["a"]) : ExpectedReward("a", action)
  \/ OptimalExpectedReward("a")
  \/ OutputMeans("a")
  \/ OutputRegrets("a")
  \/ \E context_index \in IndexArgs(env["a"]) : GetFeatures("a", context_index)
  \/ ObservationSpecProperty("a")
  \/ ActionSpecProperty("a")
  \/ Close("a")
  \/ Enter("a")
  \/ Exit("a")

Spec == Init /\ [][Next]_vars

\* Two environments constructed from the same configuration in one process,
\* each stepped at will.
NextPair ==
  \/ \E e \in Envs : Construct(e)
  \/ \E e \in Envs : \E action \in StepArgs(env[e]) : Step(e, action)

SpecPair == Init /\ [][NextPair]_vars

\* ------------------------------------------------------------------ claims
\* The object the one-environment specification works on.
Obj == env["a"]

\* Every field of the configuration is positive.
PositiveConfig ==
  cfg.num_actions > 0 /\ cfg.num_contexts > 0 /\ cfg.dim > 0 /\ cfg.sigma_p > 0

\* The transition is a call of step on "a" (every action sets call).
StepCalled == call'.op = "step" /\ call'.self = "a"

\* C1: step(action) with action < 0 or action >= num_actions raises the error
\* of the argument check instead of returning an observation, and leaves every
\* field of the object and the random stream exactly as they were.
C1_InvalidActionRejected ==
  [][(StepCalled /\ (call'.arg < 0 \/ call'.arg >= Obj.num_actions))
       => (ret' = Raise("AssertionError") /\ env' = env /\ draws' = draws)]_vars

\* A rejected step(-1) on an object that has already been stepped.
C1_Witness ==
  /\ call = [op |-> "step", self |-> "a", arg |-> -1]
  /\ ret.kind = "AssertionError"
  /\ Obj._prev_context # None

\* C2: step(action) with a valid action returns (reward, context) with reward
\* in {0,1}, context in [0, num_contexts) and context the current context after
\* the step, both within the observation spec's minimum and maximum; and the
\* current context is in [0, num_contexts) in every state of a live object.
C2_ObservationInBounds ==
  Live("a") =>
    /\ Obj.context \in Range(Obj.num_contexts)
    /\ (call.op = "step" /\ call.arg >= 0 /\ call.arg < Obj.num_actions) =>
         /\ ret.kind = "ok"
         /\ Len(ret.val) = 2
         /\ ret.val[1] \in {0, 1}
         /\ ret.val[2] \in Range(Obj.num_contexts)
         /\ ret.val[2] = Obj.context
         /\ \A k \in 1 .. 2 : /\ ret.val[k] >= Obj._observation_spec.minimum
                              /\ ret.val[k] <= Obj._observation_spec.maximum

\* A step that returned reward 1 and the last of at least two contexts.
C2_Witness ==
  /\ Live("a")
  /\ call.op = "step"
  /\ ret.kind = "ok"
  /\ Obj.num_contexts >= 2
  /\ ret.val = <<1, Obj.num_contexts - 1>>

\* C3: once a step has succeeded, _prev_context is the context that was current
\* right before the most recent successful step, whatever failed steps and
\* accessor calls came after it, and expected_reward(a) returns
\* rewards[_prev_context][a] for every valid action a.
C3_PreviousContext ==
  /\ [][IF StepCalled /\ ret'.kind = "ok"
          THEN env'["a"]._prev_context = Obj.context
          ELSE env'["a"]._prev_context = Obj._prev_context]_vars
  /\ []((Live("a") /\ Obj._prev_context # None) =>
          /\ Obj._prev_context \in Range(Obj.num_contexts)
          /\ (call.op = "expected_reward" /\ call.arg \in Range(Obj.num_actions))
               => ret = Return(Obj.rewards[Obj._prev_context][call.arg]))

\* expected_reward answered for the pre-step context where the resampled
\* context would have given another answer.
C3_Witness ==
  /\ Live("a")
  /\ call.op = "expected_reward"
  /\ call.arg \in Range(Obj.num_actions)
  /\ Obj._prev_context # None
  /\ Obj._prev_context # Obj.context
  /\ ret.kind = "ok"
  /\ ret.val # Obj.rewards[Obj.context][call.arg]

\* C4: once a step has succeeded, optimal_expected_reward() returns the maximum
\* over the actions of rewards[_prev_context], which is values[_prev_context];
\* its difference to expected_reward(a) is regrets[_prev_context][a], is never
\* negative, and is zero for some action.
C4_OptimalExpectedReward ==
  (Live("a") /\ Obj._prev_context # None) =>
    LET prev == Obj._prev_context
        opt == OptimalExpectedRewardValue(Obj)
        gap(a) == opt.val - ExpectedRewardValue(Obj, a).val
    IN /\ opt.kind = "ok"
       /\ \A a \in Range(Obj.num_actions) : opt.val >= Obj.rewards[prev][a]
       /\ \E a \in Range(Obj.num_actions) : opt.val = Obj.rewards[prev][a]
       /\ opt.val = Obj.values[prev][0]
       /\ call.op = "optimal_expected_reward" => ret = opt
       /\ \A a \in Range(Obj.num_actions) :
            gap(a) = Obj.regrets[prev][a] /\ gap(a) >= 0
       /\ \E a \in Range(Obj.num_actions) : gap(a) = 0

\* optimal_expected_reward() answered where the first action is not the best.
C4_Witness ==
  /\ Live("a")
  /\ call.op = "optimal_expected_reward"
  /\ Obj._prev_context # None
  /\ ret.val > Obj.rewards[Obj._prev_context][0]

\* C5: expected_reward (with a valid action) and optimal_expected_reward called
\* on an environment of an all-positive configuration before any successful
\* step report an error and return no value.
C5_ErrorBeforeFirstStep ==
  (PositiveConfig /\ call.op \in {"expected_reward", "optimal_expected_reward"}
     /\ call.arg \in Range(Obj.num_actions) /\ Obj._prev_context = None)
    => ret.kind # "ok"

\* C6: two environments constructed from the same all-positive configuration,
\* whatever was constructed or stepped before or between, have the same
\* theta, features, rewards, values and regrets, and the same first context.
C6_DeterminismBySeed ==
  (PositiveConfig /\ Live("a") /\ Live("b")) =>
    /\ env["a"].theta = env["b"].theta
    /\ env["a"].feature = env["b"].feature
    /\ env["a"].rewards = env["b"].rewards
    /\ env["a"].values = env["b"].values
    /\ env["a"].regrets = env["b"].regrets
    /\ (env["a"]._prev_context = None /\ env["b"]._prev_context = None)
         => env["a"].context = env["b"].context

\* C7: values[s] is the maximum of rewards[s] over the actions, regrets[s][a] is
\* values[s] - rewards[s][a], never negative and zero for some action of every
\* context; output_regrets() returns regrets and output_means() rewards.
C7_RegretSurface ==
  Live("a") =>
    /\ \A s \in Range(Obj.num_contexts) :
         /\ \A a \in Range(Obj.num_actions) :
              /\ Obj.values[s][0] >= Obj.rewards[s][a]
              /\ Obj.regrets[s][a] = Obj.values[s][0] - Obj.rewards[s][a]
              /\ Obj.regrets[s][a] >= 0
         /\ \E a \in Range(Obj.num_actions) : Obj.values[s][0] = Obj.rewards[s][a]
         /\ \E a \in Range(Obj.num_actions) : Obj.regrets[s][a] = 0
    /\ call.op = "output_regrets" => ret = Return(Obj.regrets)
    /\ call.op = "output_means" => ret = Return(Obj.rewards)

\* output_regrets() returned a surface with a positive entry.
C7_Witness ==
  /\ Live("a")
  /\ call.op = "output_regrets"
  /\ \E s \in Range(Obj.num_contexts), a \in Range(Obj.num_actions) : ret.val[s][a] > 0

\* the configuration, the reward model and the specs of an object
Immutable(o) ==
  <<o.status, o.num_actions, o.num_contexts, o.dim, o.sigma_p, o.sigma_p_squared,
    o.theta, o.feature, o.rewards, o.values, o.regrets,
    o._action_spec, o._observation_spec>>

\* C8: from construction on, no operation changes the configuration, the reward
\* model or the specs; only a successful step changes the current and the
\* previous context; every other operation, close included, changes no field,
\* and a step with a valid action after close succeeds.
C8_Frame ==
  [][Live("a") =>
       /\ Immutable(env'["a"]) = Immutable(Obj)
       /\ (StepCalled /\ ret'.kind = "ok") \/ env'["a"] = Obj
       /\ (call.op \in {"close", "__exit__"} /\ StepCalled
             /\ call'.arg \in Range(Obj.num_actions)) => ret'.kind = "ok"]_vars

\* close() returned on an object that has been stepped.
C8_Witness ==
  /\ Live("a")
  /\ call.op = "close"
  /\ Obj._prev_context # None
  /\ draws + 2 <= MaxDraws

\* C9: construction with a non-positive num_actions, num_contexts, dim or
\* sigma_p fails, without a live object and with the random stream where it was.
C9_ConstructionRejected ==
  (call.op = "__init__" /\ call.self = "a"
     /\ (cfg.num_actions <= 0 \/ cfg.num_contexts <= 0 \/ cfg.dim <= 0
           \/ cfg.sigma_p <= 0))
    => (ret.kind # "ok" /\ Obj.status = "failed" /\ draws = 0)

\* C10: whatever the action, the current and the previous context, every
\* context in [0, num_contexts) can be the current context after step(action),
\* the one before the step included, and no other value can; the same holds
\* of the context construction chooses.
C10_ContextIndependent ==
  /\ (Live("a") /\ draws + 2 <= MaxDraws) =>
       \A action \in Range(Obj.num_actions), c \in Range(Obj.num_contexts) :
         ENABLED (Step("a", action) /\ env'["a"].context = c)
  /\ Live("a") => Obj.context \in Range(Obj.num_contexts)
  /\ (Obj.status = "absent" /\ CtorRaises(cfg) = "none") =>
       \A c \in Range(cfg.num_contexts) :
         ENABLED (Construct("a") /\ env'["a"].context = c)

\* A step that drew the context it started from, where there are others.
C10_Witness ==
  /\ Live("a")
  /\ call.op = "step"
  /\ ret.kind = "ok"
  /\ Obj.num_contexts >= 2
  /\ Obj.context = Obj._prev_context

====
